---- MODULE Spec2Model ----
(***************************************************************************)
(* Git provider detection and remote URL parsing (providers/index.ts).     *)
(*                                                                         *)
(* A JavaScript string is modelled as a sequence of one-character strings, *)
(* so that substring search, case folding, trimming and the regular        *)
(* expressions of the source are computed character by character.          *)
(***************************************************************************)
EXTENDS Integers, Sequences, FiniteSets, TLC

VARIABLES
    url,       \* the string argument handed to the exported function
    gen,       \* how that argument was assembled (form, host, path, padding)
    op,        \* "idle" before the call, then the function that was called
    provider,  \* return value of detectProvider
    info,      \* return value of parseRemoteUrl
    providerRegistry,  \* the module-level registry: null or name -> adapter
    created,   \* number of adapter objects constructed so far
    regLast,   \* the last registry call: function, provider name, result
    regFirst,  \* per provider name, the first adapter a call returned (or null)
    regCalls,  \* number of registry calls made
    gEnv,      \* process.env: GITEA_URL and GITEA_TOKEN
    gCall,     \* the GiteaProvider method being called and its arguments
    gPc,       \* where that call is: idle, waiting for a tool, or done
    gLog,      \* the subprocesses and requests started and ended, in order
    gRet,      \* the value the call returned
    sanIn,     \* the argument of sanitizeOutput
    sanOp,     \* idle, or the sanitizer function that has run
    sanOut,    \* the string it returned
    fs,        \* the files and directories under the home directory
    instLast,  \* the last install call: options, files before, result
    instPrevOk, \* whether the call before the last one succeeded
    instCalls  \* number of install calls made

urlVars == <<url, gen, op, provider, info>>
regVars == <<providerRegistry, created, regLast, regFirst, regCalls>>
giteaVars == <<gEnv, gCall, gPc, gLog, gRet>>
sanVars == <<sanIn, sanOp, sanOut>>
instVars == <<fs, instLast, instPrevOk, instCalls>>
vars == <<urlVars, regVars, giteaVars, sanVars, instVars>>

----------------------------------------------------------------------------
\* Bounds of the input space
MaxSegs == 4        \* longest path, in segments, of a generated URL
MaxOddSegs == 2     \* longest path of a URL with empty segments or padding
MaxWords == 3       \* longest free-form input, in words
MaxCalls == 3       \* most registry calls in one run
MaxNumber == 2      \* largest PR / issue number passed to the adapter
MaxPieces == 3      \* longest HUD output, in pieces
MaxInstalls == 2    \* most install calls in one run

----------------------------------------------------------------------------
\* String literals of the source
LitDevAzure == <<"d", "e", "v", ".", "a", "z", "u", "r", "e", ".", "c", "o", "m">>
LitSshDevAzure == <<"s", "s", "h", ".", "d", "e", "v", ".", "a", "z", "u", "r", "e", ".", "c", "o", "m">>
LitVisualStudio == <<"v", "i", "s", "u", "a", "l", "s", "t", "u", "d", "i", "o", ".", "c", "o", "m">>
LitGithub == <<"g", "i", "t", "h", "u", "b", ".", "c", "o", "m">>
LitGitlabCom == <<"g", "i", "t", "l", "a", "b", ".", "c", "o", "m">>
LitBitbucket == <<"b", "i", "t", "b", "u", "c", "k", "e", "t", ".", "o", "r", "g">>
LitGitlab == <<"g", "i", "t", "l", "a", "b">>
LitGitea == <<"g", "i", "t", "e", "a">>
LitForgejo == <<"f", "o", "r", "g", "e", "j", "o">>
LitHttp == <<"h", "t", "t", "p">>
LitSchemeSep == <<":", "/", "/">>
LitGitAt == <<"g", "i", "t", "@">>
LitSshGitAt == <<"s", "s", "h", ":", "/", "/", "g", "i", "t", "@">>
LitDotGit == <<".", "g", "i", "t">>
LitAzureHttpsHost == <<"d", "e", "v", ".", "a", "z", "u", "r", "e", ".", "c", "o", "m", "/">>
LitUnderGit == <<"_", "g", "i", "t", "/">>
LitAzureSshHead == <<"g", "i", "t", "@", "s", "s", "h", ".", "d", "e", "v", ".", "a", "z", "u", "r", "e", ".", "c", "o", "m", ":", "v", "3", "/">>

ProviderName ==
    {"github", "gitlab", "bitbucket", "azure-devops", "gitea", "forgejo", "unknown"}

----------------------------------------------------------------------------
\* JavaScript string primitives

\* the lower-case form of each upper-case letter
LowerMap ==
    [A |-> "a", B |-> "b", C |-> "c", D |-> "d", E |-> "e", F |-> "f",
     G |-> "g", H |-> "h", I |-> "i", J |-> "j", K |-> "k", L |-> "l",
     M |-> "m", N |-> "n", O |-> "o", P |-> "p", Q |-> "q", R |-> "r",
     S |-> "s", T |-> "t", U |-> "u", V |-> "v", W |-> "w", X |-> "x",
     Y |-> "y", Z |-> "z"]

LowerOf(c) == IF c \in DOMAIN LowerMap THEN LowerMap[c] ELSE c

\* String.prototype.toLowerCase
toLowerCase(s) == [i \in 1..Len(s) |-> LowerOf(s[i])]

\* the literal lit occurs in s at index i
hasAt(s, i, lit) ==
    /\ i >= 1
    /\ i + Len(lit) - 1 <= Len(s)
    /\ \A k \in 1..Len(lit) : s[i + k - 1] = lit[k]

\* String.prototype.includes
includes(s, lit) == \E i \in 1..(Len(s) - Len(lit) + 1) : hasAt(s, i, lit)

\* /lit/i.test(s): an unanchored, case-insensitive literal pattern
testIgnoreCase(s, lit) ==
    \E i \in 1..(Len(s) - Len(lit) + 1) :
        \A k \in 1..Len(lit) : LowerOf(s[i + k - 1]) = LowerOf(lit[k])

\* \s of a regular expression, and the characters String.prototype.trim removes
IsSpace(c) == c \in {" ", "\n"}

\* the characters that . of a regular expression does not match
IsLineTerminator(c) == c = "\n"

Min(S) == CHOOSE x \in S : \A y \in S : x <= y
Max(S) == CHOOSE x \in S : \A y \in S : x >= y

\* String.prototype.trimStart: only the leading whitespace is removed
trim_StartOnly(s) ==
    LET keep == {i \in 1..Len(s) : ~IsSpace(s[i])}
    IN  IF keep = {} THEN <<>> ELSE SubSeq(s, Min(keep), Len(s))

\* String.prototype.trim
trim(s) ==
    LET keep == {i \in 1..Len(s) : ~IsSpace(s[i])}
    IN  IF keep = {} THEN <<>> ELSE SubSeq(s, Min(keep), Max(keep))

----------------------------------------------------------------------------
\* detectProvider

\* a heuristic cascade that falls off its end without a value
selfHostedHeuristics_NoDefault(lower) ==
    IF testIgnoreCase(lower, LitGitlab) THEN "gitlab"
    ELSE IF testIgnoreCase(lower, LitGitea) THEN "gitea"
    ELSE IF testIgnoreCase(lower, LitForgejo) THEN "forgejo"
    ELSE "undefined"

\* a heuristic cascade that tests forgejo before gitea
selfHostedHeuristics_ForgejoFirst(lower) ==
    IF testIgnoreCase(lower, LitGitlab) THEN "gitlab"
    ELSE IF testIgnoreCase(lower, LitForgejo) THEN "forgejo"
    ELSE IF testIgnoreCase(lower, LitGitea) THEN "gitea"
    ELSE "unknown"

\* the self-hosted heuristics and the final return of detectProvider
selfHostedHeuristics(lower) ==
    IF testIgnoreCase(lower, LitGitlab) THEN "gitlab"
    ELSE IF testIgnoreCase(lower, LitGitea) THEN "gitea"
    ELSE IF testIgnoreCase(lower, LitForgejo) THEN "forgejo"
    ELSE "unknown"

\* detectProvider without the case normalisation of its first line
detectProvider_NoLower(remoteUrl) ==
    LET lower == remoteUrl
    IN  IF \/ includes(lower, LitDevAzure)
           \/ includes(lower, LitSshDevAzure)
           \/ includes(lower, LitVisualStudio)
        THEN "azure-devops"
        ELSE IF includes(lower, LitGithub) THEN "github"
        ELSE IF includes(lower, LitGitlabCom) THEN "gitlab"
        ELSE IF includes(lower, LitBitbucket) THEN "bitbucket"
        ELSE selfHostedHeuristics(lower)

detectProvider(remoteUrl) ==
    LET lower == toLowerCase(remoteUrl)
    IN  IF \/ includes(lower, LitDevAzure)
           \/ includes(lower, LitSshDevAzure)
           \/ includes(lower, LitVisualStudio)
        THEN "azure-devops"
        ELSE IF includes(lower, LitGithub) THEN "github"
        ELSE IF includes(lower, LitGitlabCom) THEN "gitlab"
        ELSE IF includes(lower, LitBitbucket) THEN "bitbucket"
        ELSE selfHostedHeuristics(lower)

----------------------------------------------------------------------------
\* The regular expressions of parseRemoteUrl

NoMatch == [matched |-> FALSE]
null == [null |-> TRUE]

\* least index >= from at which character c occurs, 0 if there is none
FirstIndex(s, c, from) ==
    LET at == {j \in from..Len(s) : s[j] = c}
    IN  IF at = {} THEN 0 ELSE Min(at)

\* https?:\/\/ at index i: the index after it, 0 if it does not match
AfterScheme(s, i) ==
    IF ~hasAt(s, i, LitHttp) THEN 0
    ELSE IF hasAt(s, i + 4, <<"s">>) /\ hasAt(s, i + 5, LitSchemeSep) THEN i + 8
    ELSE IF hasAt(s, i + 4, LitSchemeSep) THEN i + 7
    ELSE 0

\* ([^/\s]+?)(?:\.git)?$ at index from: the index of the last character of the
\* capture, 0 if it does not match.  The capture is lazy: the shortest run of
\* characters that are neither / nor whitespace after which an optional .git
\* and the end of the input follow.
RepoEnd(s, from) ==
    LET n == Len(s)
        ends == {e \in from..n :
                    /\ \A j \in from..e : s[j] # "/" /\ ~IsSpace(s[j])
                    /\ \/ e + 4 = n /\ hasAt(s, e + 1, LitDotGit)
                       \/ e = n}
    IN  IF from < 1 \/ ends = {} THEN 0 ELSE Min(ends)

\* the same pattern with ([^d]*) and (.*?) in place of ([^d]+) and (.+?)
HostOwnerRepoAt_MayBeEmpty(s, k, d) ==
    LET n == Len(s)
        p == FirstIndex(s, d, k)
        seps == {q \in (p + 1)..n :
                    /\ s[q] = "/"
                    /\ \A j \in (p + 1)..(q - 1) : ~IsLineTerminator(s[j])
                    /\ RepoEnd(s, q + 1) # 0}
    IN  IF k < 1 \/ p < k \/ seps = {} THEN NoMatch
        ELSE LET q == Min(seps)
             IN  [host |-> SubSeq(s, k, p - 1),
                  owner |-> SubSeq(s, p + 1, q - 1),
                  repo |-> SubSeq(s, q + 1, RepoEnd(s, q + 1))]

\* ([^d]+)d(.+?)\/([^/\s]+?)(?:\.git)?$ at index k, d the delimiter after the
\* host.  [^d]+ is greedy and d must follow it, so it ends right before the
\* first d; (.+?) is lazy, so it ends before the first / that lets the rest
\* of the pattern match.
HostOwnerRepoAt(s, k, d) ==
    LET n == Len(s)
        p == FirstIndex(s, d, k)
        seps == {q \in (p + 2)..n :
                    /\ s[q] = "/"
                    /\ \A j \in (p + 1)..(q - 1) : ~IsLineTerminator(s[j])
                    /\ RepoEnd(s, q + 1) # 0}
    IN  IF k < 1 \/ p <= k \/ seps = {} THEN NoMatch
        ELSE LET q == Min(seps)
             IN  [host |-> SubSeq(s, k, p - 1),
                  owner |-> SubSeq(s, p + 1, q - 1),
                  repo |-> SubSeq(s, q + 1, RepoEnd(s, q + 1))]

\* ([^/]+)\/([^/]+)\/ at index k, then the literal mid, then the repository
OrgProjectRepoAt(s, k, mid) ==
    LET p1 == FirstIndex(s, "/", k)
        p2 == IF p1 = 0 THEN 0 ELSE FirstIndex(s, "/", p1 + 1)
        r  == p2 + 1 + Len(mid)
    IN  IF k < 1 \/ p1 <= k \/ p2 <= p1 + 1 THEN NoMatch
        ELSE IF ~hasAt(s, p2 + 1, mid) \/ RepoEnd(s, r) = 0 THEN NoMatch
        ELSE [org |-> SubSeq(s, k, p1 - 1),
              project |-> SubSeq(s, p1 + 1, p2 - 1),
              repo |-> SubSeq(s, r, RepoEnd(s, r))]

\* /https?:\/\/dev\.azure\.com\/([^/]+)\/([^/]+)\/_git\/([^/\s]+?)(?:\.git)?$/
azureHttpsAt(s, i) ==
    LET a == AfterScheme(s, i)
    IN  IF a = 0 \/ ~hasAt(s, a, LitAzureHttpsHost) THEN NoMatch
        ELSE OrgProjectRepoAt(s, a + Len(LitAzureHttpsHost), LitUnderGit)

\* /git@ssh\.dev\.azure\.com:v3\/([^/]+)\/([^/]+)\/([^/\s]+?)(?:\.git)?$/
azureSshAt(s, i) ==
    IF ~hasAt(s, i, LitAzureSshHead) THEN NoMatch
    ELSE OrgProjectRepoAt(s, i + Len(LitAzureSshHead), <<>>)

\* /https?:\/\/([^/]+)\/(.+?)\/([^/\s]+?)(?:\.git)?$/
httpsAt(s, i) ==
    LET a == AfterScheme(s, i)
    IN  IF a = 0 THEN NoMatch ELSE HostOwnerRepoAt(s, a, "/")

\* /git@([^:]+):(.+?)\/([^/\s]+?)(?:\.git)?$/
sshAt(s, i) ==
    IF ~hasAt(s, i, LitGitAt) THEN NoMatch
    ELSE HostOwnerRepoAt(s, i + Len(LitGitAt), ":")

\* /ssh:\/\/git@([^/]+)\/(.+?)\/([^/\s]+?)(?:\.git)?$/
sshUrlAt(s, i) ==
    IF ~hasAt(s, i, LitSshGitAt) THEN NoMatch
    ELSE HostOwnerRepoAt(s, i + Len(LitSshGitAt), "/")

\* the five patterns of parseRemoteUrl, by the name of the match variable
PatternAt(pat, s, i) ==
    CASE pat = "azureHttpsMatch" -> azureHttpsAt(s, i)
      [] pat = "azureSshMatch" -> azureSshAt(s, i)
      [] pat = "httpsMatch" -> httpsAt(s, i)
      [] pat = "sshMatch" -> sshAt(s, i)
      [] pat = "sshUrlMatch" -> sshUrlAt(s, i)

\* String.prototype.match with a pattern that is not anchored at its start:
\* the match at the leftmost index where the pattern matches
match(s, pat) ==
    LET hits == {i \in 1..Len(s) : PatternAt(pat, s, i) # NoMatch}
    IN  IF hits = {} THEN NoMatch ELSE PatternAt(pat, s, Min(hits))

----------------------------------------------------------------------------
\* parseRemoteUrl

AzureInfo(m) ==
    [provider |-> "azure-devops",
     host |-> LitDevAzure,
     owner |-> m.org \o <<"/">> \o m.project,
     repo |-> m.repo]

\* the provider detected from the captured host instead of the whole input
GenericInfo_DetectFromHost(trimmed, m) ==
    [provider |-> detectProvider(m.host),
     host |-> m.host,
     owner |-> m.owner,
     repo |-> m.repo]

GenericInfo(trimmed, m) ==
    [provider |-> detectProvider(trimmed),
     host |-> m.host,
     owner |-> m.owner,
     repo |-> m.repo]

\* the generic patterns tried before the two Azure DevOps patterns
parseRemoteUrl_GenericFirst(u) ==
    LET trimmed == trim(u)
        azureHttpsMatch == match(trimmed, "azureHttpsMatch")
        azureSshMatch == match(trimmed, "azureSshMatch")
        httpsMatch == match(trimmed, "httpsMatch")
        sshMatch == match(trimmed, "sshMatch")
        sshUrlMatch == match(trimmed, "sshUrlMatch")
    IN  IF httpsMatch # NoMatch THEN GenericInfo(trimmed, httpsMatch)
        ELSE IF sshMatch # NoMatch THEN GenericInfo(trimmed, sshMatch)
        ELSE IF sshUrlMatch # NoMatch THEN GenericInfo(trimmed, sshUrlMatch)
        ELSE IF azureHttpsMatch # NoMatch THEN AzureInfo(azureHttpsMatch)
        ELSE IF azureSshMatch # NoMatch THEN AzureInfo(azureSshMatch)
        ELSE null

\* a final return of an object with empty fields instead of null
parseRemoteUrl_NoNull(u) ==
    LET trimmed == trim(u)
        azureHttpsMatch == match(trimmed, "azureHttpsMatch")
        azureSshMatch == match(trimmed, "azureSshMatch")
        httpsMatch == match(trimmed, "httpsMatch")
        sshMatch == match(trimmed, "sshMatch")
        sshUrlMatch == match(trimmed, "sshUrlMatch")
    IN  IF azureHttpsMatch # NoMatch THEN AzureInfo(azureHttpsMatch)
        ELSE IF azureSshMatch # NoMatch THEN AzureInfo(azureSshMatch)
        ELSE IF httpsMatch # NoMatch THEN GenericInfo(trimmed, httpsMatch)
        ELSE IF sshMatch # NoMatch THEN GenericInfo(trimmed, sshMatch)
        ELSE IF sshUrlMatch # NoMatch THEN GenericInfo(trimmed, sshUrlMatch)
        ELSE [provider |-> detectProvider(trimmed),
              host |-> <<>>, owner |-> <<>>, repo |-> <<>>]

parseRemoteUrl(u) ==
    LET trimmed == trim(u)
        azureHttpsMatch == match(trimmed, "azureHttpsMatch")
        azureSshMatch == match(trimmed, "azureSshMatch")
        httpsMatch == match(trimmed, "httpsMatch")
        sshMatch == match(trimmed, "sshMatch")
        sshUrlMatch == match(trimmed, "sshUrlMatch")
    IN  IF azureHttpsMatch # NoMatch THEN AzureInfo(azureHttpsMatch)
        ELSE IF azureSshMatch # NoMatch THEN AzureInfo(azureSshMatch)
        ELSE IF httpsMatch # NoMatch THEN GenericInfo(trimmed, httpsMatch)
        ELSE IF sshMatch # NoMatch THEN GenericInfo(trimmed, sshMatch)
        ELSE IF sshUrlMatch # NoMatch THEN GenericInfo(trimmed, sshUrlMatch)
        ELSE null

----------------------------------------------------------------------------
\* The inputs the functions are applied to

InHttps == <<"h", "t", "t", "p", "s", ":", "/", "/">>
InHttpPlain == <<"h", "t", "t", "p", ":", "/", "/">>
InHostPlain == <<"h", ".", "i", "o">>
InHostPort == <<"h", ".", "i", "o", ":", "2", "2">>
InMixedGithub == <<"G", "i", "t", "H", "u", "b", ".", "C", "O", "M">>
InSegV3 == <<"v", "3">>
InSegGit == <<"_", "g", "i", "t">>
InFiller == <<"x">>
InSlash == <<"/">>
InPadLead == <<" ">>
InPadTrail == <<" ", "\n">>
InDotGitTwice == <<".", "g", "i", "t", ".", "g", "i", "t">>

Forms == {"https", "http", "scp", "sshurl"}
\* the hosts each form is generated with
HostsOf(form) ==
    CASE form = "https" -> {LitGithub, LitDevAzure, InHostPlain, InHostPort, <<>>}
      [] form = "http" -> {LitDevAzure, InHostPlain}
      [] form = "scp" -> {LitGithub, LitSshDevAzure, InHostPlain, <<>>}
      [] form = "sshurl" -> {LitGithub, InHostPlain, InHostPort}
Names == {InSegV3, InSegGit, LitGitea}
Segments == Names \cup {<<>>}
Suffixes == {<<>>, LitDotGit, InDotGitTwice}
Words ==
    {LitDevAzure, LitVisualStudio, LitGithub, LitGitlabCom, LitBitbucket,
     LitGitlab, LitGitea, LitForgejo, InMixedGithub, InFiller, InSlash}

SchemeOf(form) ==
    CASE form = "https" -> InHttps
      [] form = "http" -> InHttpPlain
      [] form = "scp" -> LitGitAt
      [] form = "sshurl" -> LitSshGitAt

SepOf(form) == IF form = "scp" THEN <<":">> ELSE <<"/">>

RECURSIVE Concat(_)
Concat(ws) == IF ws = <<>> THEN <<>> ELSE Head(ws) \o Concat(Tail(ws))

RECURSIVE Join(_)
Join(segs) ==
    IF segs = <<>> THEN <<>>
    ELSE IF Len(segs) = 1 THEN Head(segs)
    ELSE Head(segs) \o <<"/">> \o Join(Tail(segs))

SeqsUpTo(S, n) == UNION {[1..k -> S] : k \in 0..n}

Render(g) ==
    IF g.form = "words" THEN Concat(g.segs)
    ELSE (IF g.padded THEN InPadLead ELSE <<>>)
         \o SchemeOf(g.form) \o g.host \o SepOf(g.form)
         \o Join(g.segs) \o g.suffix
         \o (IF g.padded THEN InPadTrail ELSE <<>>)

UrlGens(segments, maxSegs, pads) ==
    UNION {[form : {f}, host : HostsOf(f), segs : SeqsUpTo(segments, maxSegs),
            suffix : Suffixes, padded : pads] : f \in Forms}

\* hosts of the Azure DevOps clone URLs with user info and of the older
\* visualstudio.com domain
InAzureUser == <<"o", "@">> \o LitDevAzure
InVisualStudio == <<"o", ".">> \o LitVisualStudio

\* https://{org}@dev.azure.com/{org}/{project}/_git/{repo} and
\* https://{org}.visualstudio.com/{project}/_git/{repo}
AzureCloneGens ==
    {[form |-> "https", host |-> InAzureUser,
      segs |-> <<InFiller, InFiller, InSegGit, InFiller>>,
      suffix |-> <<>>, padded |-> FALSE],
     [form |-> "https", host |-> InVisualStudio,
      segs |-> <<InFiller, InSegGit, InFiller>>,
      suffix |-> <<>>, padded |-> FALSE]}

\* URLs with paths of names; URLs with empty path segments or surrounding
\* whitespace; Azure DevOps clone URLs; and free-form strings of words
Gens ==
    UrlGens(Names, MaxSegs, {FALSE})
    \cup
    AzureCloneGens
    \cup
    UrlGens(Segments, MaxOddSegs, BOOLEAN)
    \cup
    [form : {"words"}, host : {<<>>}, segs : SeqsUpTo(Words, MaxWords),
     suffix : {<<>>}, padded : {FALSE}]

----------------------------------------------------------------------------
\* The provider registry

\* the entries of the Map built by initRegistry, in construction order
RegistryEntries ==
    <<[name |-> "github", class |-> "GitHubProvider"],
      [name |-> "gitlab", class |-> "GitLabProvider"],
      [name |-> "bitbucket", class |-> "BitbucketProvider"],
      [name |-> "azure-devops", class |-> "AzureDevOpsProvider"],
      [name |-> "gitea", class |-> "GiteaProvider"],
      [name |-> "forgejo", class |-> "GiteaProvider"]>>

RegisteredNames == {RegistryEntries[i].name : i \in DOMAIN RegistryEntries}

\* new Map([...]): one new adapter object per entry, the objects numbered in
\* the order of their construction after the n objects that already exist
NewRegistry(n) ==
    [name \in RegisteredNames |->
        LET i == CHOOSE k \in DOMAIN RegistryEntries : RegistryEntries[k].name = name
        IN  [class |-> RegistryEntries[i].class, instance |-> n + i]]

\* initRegistry without its first line: the Map is built on every call
initRegistry_NoGuard(reg, n) ==
    [registry |-> NewRegistry(n), created |-> n + Len(RegistryEntries)]

\* initRegistry: the registry and the object count after the call
initRegistry(reg, n) ==
    IF reg # null THEN [registry |-> reg, created |-> n]
    ELSE [registry |-> NewRegistry(n), created |-> n + Len(RegistryEntries)]

\* getProvider: the state after the call and the value returned
getProvider(reg, n, name) ==
    LET after == initRegistry(reg, n)
    IN  [registry |-> after.registry,
         created |-> after.created,
         ret |-> IF name \in DOMAIN after.registry
                 THEN after.registry[name] ELSE null]

\* what execSync('git remote get-url origin') does: it throws (git fails, is
\* missing or exceeds the timeout) or returns the standard output
GitThrows == {"failed", "timeout"}
GitStdouts ==
    {<<>>, <<"\n">>} \cup {w \o <<"\n">> : w \in Words}
    \cup {InHttps \o LitGithub \o <<"/">> \o InFiller \o <<"/">> \o InFiller \o <<"\n">>}
GitOutcomes ==
    [thrown : {TRUE}, why : GitThrows] \cup [thrown : {FALSE}, stdout : GitStdouts]

\* the marker of a call that ends by raising an exception
raised == [raised |-> TRUE]

\* detectProviderFromCwd without its try/catch
detectProviderFromCwd_NoCatch(git) ==
    IF git.thrown THEN "raised"
    ELSE LET u == trim(git.stdout)
         IN  IF u = <<>> THEN "unknown" ELSE detectProvider(u)

\* detectProviderFromCwd on the outcome of the git invocation
detectProviderFromCwd(git) ==
    IF git.thrown THEN "unknown"
    ELSE LET u == trim(git.stdout)
         IN  IF u = <<>> THEN "unknown" ELSE detectProvider(u)

\* getProviderFromCwd: the state after the call, the name detected and the
\* value returned; an exception of detectProviderFromCwd would pass through
getProviderFromCwd(reg, n, git) ==
    LET name == detectProviderFromCwd(git)
    IN  IF name = "raised"
        THEN [registry |-> reg, created |-> n, name |-> name, ret |-> raised]
        ELSE IF name = "unknown"
        THEN [registry |-> reg, created |-> n, name |-> name, ret |-> null]
        ELSE [name |-> name] @@ getProvider(reg, n, name)

\* names passed to getProvider: the enumeration and one that is not registered
LookupNames == ProviderName \cup {"sourcehut"}

NoFirst == [name \in RegisteredNames |-> null]

\* the first adapter returned for a name is remembered
NoteFirst(first, name, ret) ==
    IF name \in RegisteredNames /\ ret \notin {null, raised} /\ first[name] = null
    THEN [first EXCEPT ![name] = ret]
    ELSE first

RegistryInit ==
    /\ providerRegistry = null
    /\ created = 0
    /\ regLast = [fn |-> "none"]
    /\ regFirst = NoFirst
    /\ regCalls = 0

GetProvider(name) ==
    /\ regCalls < MaxCalls
    /\ LET r == getProvider(providerRegistry, created, name)
       IN  /\ providerRegistry' = r.registry
           /\ created' = r.created
           /\ regLast' = [fn |-> "getProvider", name |-> name, ret |-> r.ret]
           /\ regFirst' = NoteFirst(regFirst, name, r.ret)
    /\ regCalls' = regCalls + 1
    /\ UNCHANGED <<urlVars, giteaVars, sanVars, instVars>>

GetProviderFromCwd(git) ==
    /\ regCalls < MaxCalls
    /\ LET r == getProviderFromCwd(providerRegistry, created, git)
       IN  /\ providerRegistry' = r.registry
           /\ created' = r.created
           /\ regLast' = [fn |-> "getProviderFromCwd", name |-> r.name,
                          git |-> git, ret |-> r.ret]
           /\ regFirst' = NoteFirst(regFirst, r.name, r.ret)
    /\ regCalls' = regCalls + 1
    /\ UNCHANGED <<urlVars, giteaVars, sanVars, instVars>>

\* no URL function is being called
UrlIdle ==
    /\ gen = [form |-> "words", host |-> <<>>, segs |-> <<>>,
              suffix |-> <<>>, padded |-> FALSE]
    /\ url = <<>>
    /\ op = "idle"
    /\ provider = "none"
    /\ info = null

----------------------------------------------------------------------------
\* The installer

\* paths below the home directory, as sequences of names
CLAUDE_CONFIG_DIR == <<".claude">>
AGENTS_DIR == Append(CLAUDE_CONFIG_DIR, "agents")
COMMANDS_DIR == Append(CLAUDE_CONFIG_DIR, "commands")
VERSION_FILE == Append(CLAUDE_CONFIG_DIR, ".sisyphus-version.json")
claudeMdPath == Append(CLAUDE_CONFIG_DIR, "CLAUDE.md")
homeMdPath == <<"CLAUDE.md">>

\* Object.entries order of the first keys of AGENT_DEFINITIONS and of
\* COMMAND_DEFINITIONS
AgentFiles == <<"oracle.md", "librarian.md">>
CommandFiles == <<"ultrawork.md">>

AgentPaths == {Append(AGENTS_DIR, AgentFiles[i]) : i \in DOMAIN AgentFiles}
CommandPaths == {Append(COMMANDS_DIR, CommandFiles[i]) : i \in DOMAIN CommandFiles}
Dirs == {CLAUDE_CONFIG_DIR, AGENTS_DIR, COMMANDS_DIR}
Paths ==
    Dirs \cup AgentPaths \cup CommandPaths \cup {VERSION_FILE, claudeMdPath, homeMdPath}

\* what a path holds: nothing, a directory, a file the user wrote, a file with
\* the content install writes
Parent(path) == SubSeq(path, 1, Len(path) - 1)
HasParent(path) == Len(path) > 1

existsSync(files, path) == files[path] # "absent"

IsPrefix(a, b) == Len(a) <= Len(b) /\ SubSeq(b, 1, Len(a)) = a

\* mkdirSync(path, {recursive: true}): the files after it, or raised
mkdirSync(files, path, faults) ==
    IF path \in faults THEN raised
    ELSE IF \E q \in Paths : IsPrefix(q, path) /\ files[q] \notin {"absent", "dir"}
    THEN raised
    ELSE [q \in Paths |-> IF IsPrefix(q, path) THEN "dir" ELSE files[q]]

\* writeFileSync(path, content): the files after it, or raised
writeFileSync(files, path, faults) ==
    IF path \in faults THEN raised
    ELSE IF HasParent(path) /\ files[Parent(path)] # "dir" THEN raised
    ELSE IF files[path] = "dir" THEN raised
    ELSE [files EXCEPT ![path] = "installed"]

\* a loop that overwrites whatever is there
skipExisting_Never(exists, force) == FALSE

\* existsSync(filepath) && !options.force
skipExisting(exists, force) == exists /\ ~force

\* the running state of one install call: the files, the two result lists,
\* the paths written, and whether an exception has been thrown
Begin(files) ==
    [files |-> files, installedAgents |-> <<>>, installedCommands |-> <<>>,
     writes |-> {}, thrown |-> FALSE]

Throw(st) == [st EXCEPT !.thrown = TRUE]

\* if (!existsSync(dir)) mkdirSync(dir, { recursive: true })
EnsureDir(st, dir, faults) ==
    IF st.thrown \/ existsSync(st.files, dir) THEN st
    ELSE LET after == mkdirSync(st.files, dir, faults)
         IN  IF after = raised THEN Throw(st) ELSE [st EXCEPT !.files = after]

\* one iteration of the agent loop (kind "agent") or the command loop
InstallFile(st, dir, filename, kind, force, faults) ==
    LET filepath == Append(dir, filename)
    IN  IF st.thrown \/ skipExisting(existsSync(st.files, filepath), force) THEN st
        ELSE LET after == writeFileSync(st.files, filepath, faults)
             IN  IF after = raised THEN Throw(st)
                 ELSE [st EXCEPT
                         !.files = after,
                         !.writes = @ \cup {filepath},
                         !.installedAgents =
                             IF kind = "agent" THEN Append(@, filename) ELSE @,
                         !.installedCommands =
                             IF kind = "command" THEN Append(@, filename) ELSE @]

\* for (const [filename, content] of Object.entries(...)) from entry i on
RECURSIVE InstallFiles(_, _, _, _, _, _, _)
InstallFiles(st, dir, names, i, kind, force, faults) ==
    IF i > Len(names) THEN st
    ELSE InstallFiles(InstallFile(st, dir, names[i], kind, force, faults),
                      dir, names, i + 1, kind, force, faults)

\* CLAUDE.md is written only if the home directory has none and the config
\* directory has none, or force is given
InstallClaudeMd(st, force, faults) ==
    IF st.thrown THEN st
    ELSE IF ~existsSync(st.files, homeMdPath)
            /\ (~existsSync(st.files, claudeMdPath) \/ force)
    THEN LET after == writeFileSync(st.files, claudeMdPath, faults)
         IN  IF after = raised THEN Throw(st)
             ELSE [st EXCEPT !.files = after, !.writes = @ \cup {claudeMdPath}]
    ELSE st

\* writeFileSync(VERSION_FILE, ...)
SaveVersion(st, faults) ==
    IF st.thrown THEN st
    ELSE LET after == writeFileSync(st.files, VERSION_FILE, faults)
         IN  IF after = raised THEN Throw(st)
             ELSE [st EXCEPT !.files = after, !.writes = @ \cup {VERSION_FILE}]

\* the try block of install
installTry(files, force, faults) ==
    LET d1 == EnsureDir(Begin(files), CLAUDE_CONFIG_DIR, faults)
        d2 == EnsureDir(d1, AGENTS_DIR, faults)
        d3 == EnsureDir(d2, COMMANDS_DIR, faults)
        a == InstallFiles(d3, AGENTS_DIR, AgentFiles, 1, "agent", force, faults)
        c == InstallFiles(a, COMMANDS_DIR, CommandFiles, 1, "command", force, faults)
        m == InstallClaudeMd(c, force, faults)
    IN  SaveVersion(m, faults)

\* the InstallResult: the catch block records the message and leaves success false
installResult(st) ==
    [success |-> ~st.thrown,
     installedAgents |-> st.installedAgents,
     installedCommands |-> st.installedCommands,
     errors |-> IF st.thrown THEN <<"errorMessage">> ELSE <<>>]

\* the files a run may start from: a file needs its directory
StartFiles ==
    {f \in [Paths -> {"absent", "dir", "user"}] :
        /\ \A q \in Dirs : f[q] \in {"absent", "dir"}
        /\ \A q \in Paths \ Dirs : f[q] \in {"absent", "user"}
        /\ \A q \in Paths : (HasParent(q) /\ f[q] # "absent") => f[Parent(q)] = "dir"}

\* the operations that fail in one call: none, or those on one path
FaultSets == {{}} \cup {{q} : q \in Paths \ {homeMdPath}}

NoFiles == [q \in Paths |-> "absent"]

InstIdle ==
    /\ fs = NoFiles
    /\ instLast = [called |-> FALSE]
    /\ instPrevOk = FALSE
    /\ instCalls = 0

Install(force, faults) ==
    /\ instCalls < MaxInstalls
    /\ LET st == installTry(fs, force, faults)
       IN  /\ fs' = st.files
           /\ instLast' = [called |-> TRUE, force |-> force, before |-> fs,
                           writes |-> st.writes, thrown |-> st.thrown,
                           result |-> installResult(st)]
    /\ instPrevOk' = (instLast.called /\ instLast.result.success)
    /\ instCalls' = instCalls + 1
    /\ UNCHANGED <<urlVars, regVars, giteaVars, sanVars>>

----------------------------------------------------------------------------
\* The HUD output sanitizer

\* characters the sanitizer distinguishes, one string per character
ESC == "ESC"              \* \x1b
BEL == "BEL"              \* \x07
FullBlock == "FULL"       \* U+2588
LightShade == "LIGHT"     \* U+2591
MediumShade == "MEDIUM"   \* U+2592
DarkShade == "DARK"       \* U+2593

IsParam(c) == c \in {"0", "1", "2", "3", "4", "5", "6", "7", "8", "9", ";"}
IsLetter(c) == c \in DOMAIN LowerMap \/ c \in {LowerMap[k] : k \in DOMAIN LowerMap}

\* the first position from i on whose character is not in [0-9;]
ParamsEnd(s, i) ==
    Min({k \in i .. Len(s) + 1 : k = Len(s) + 1 \/ ~IsParam(s[k])})

\* \x1b\[[0-9;]*[A-Za-z] at position i: the length matched, 0 for no match
CsiLen(s, i) ==
    IF i + 1 <= Len(s) /\ s[i] = ESC /\ s[i + 1] = "["
    THEN LET k == ParamsEnd(s, i + 2)
         IN  IF k <= Len(s) /\ IsLetter(s[k]) THEN k - i + 1 ELSE 0
    ELSE 0

\* \x1b\][^\x07]*\x07 at position i
OscLen(s, i) ==
    IF i + 1 <= Len(s) /\ s[i] = ESC /\ s[i + 1] = "]"
       /\ \E k \in i + 2 .. Len(s) : s[k] = BEL
    THEN Min({k \in i + 2 .. Len(s) : s[k] = BEL}) - i + 1
    ELSE 0

\* \x1b[^[\]] at position i
SimpleLen(s, i) ==
    IF i + 1 <= Len(s) /\ s[i] = ESC /\ s[i + 1] \notin {"[", "]"} THEN 2 ELSE 0

\* ANSI_REGEX at position i: the first alternative that matches
AnsiLen(s, i) ==
    IF CsiLen(s, i) > 0 THEN CsiLen(s, i)
    ELSE IF OscLen(s, i) > 0 THEN OscLen(s, i)
    ELSE SimpleLen(s, i)

\* text.replace(ANSI_REGEX, '') from position i on: one pass, left to right
RECURSIVE StripFrom(_, _)
StripFrom(s, i) ==
    IF i > Len(s) THEN <<>>
    ELSE IF AnsiLen(s, i) > 0 THEN StripFrom(s, i + AnsiLen(s, i))
    ELSE <<s[i]>> \o StripFrom(s, i + 1)

stripAnsi(text) == StripFrom(text, 1)

replaceUnicodeBlocks(text) ==
    [i \in 1 .. Len(text) |->
        CASE text[i] = FullBlock -> "#"
          [] text[i] = LightShade -> "-"
          [] text[i] = DarkShade -> "="
          [] text[i] = MediumShade -> "-"
          [] OTHER -> text[i]]

\* text.split('\n')
RECURSIVE split(_)
split(text) ==
    IF \E k \in 1 .. Len(text) : text[k] = "\n"
    THEN LET k == Min({j \in 1 .. Len(text) : text[j] = "\n"})
         IN  <<SubSeq(text, 1, k - 1)>> \o split(SubSeq(text, k + 1, Len(text)))
    ELSE <<text>>

\* lines.join(' | ')
RECURSIVE joinPipe(_)
joinPipe(lines) ==
    IF Len(lines) = 0 THEN <<>>
    ELSE IF Len(lines) = 1 THEN lines[1]
    ELSE lines[1] \o <<" ", "|", " ">> \o joinPipe(Tail(lines))

\* text.replace(/\s{2,}/g, ' ')
RECURSIVE collapseSpaces(_)
collapseSpaces(text) ==
    IF text = <<>> THEN <<>>
    ELSE IF IsSpace(text[1])
    THEN LET n == Min({k \in 1 .. Len(text) + 1 : k = Len(text) + 1 \/ ~IsSpace(text[k])}) - 1
         IN  (IF n >= 2 THEN <<" ">> ELSE <<text[1]>>)
             \o collapseSpaces(SubSeq(text, n + 1, Len(text)))
    ELSE <<text[1]>> \o collapseSpaces(Tail(text))

sanitizeOutput(output) ==
    LET stripped == replaceUnicodeBlocks(stripAnsi(output))
        lines == SelectSeq(split(stripped), LAMBDA line : Len(trim(line)) > 0)
        joined == IF Len(lines) > 1 THEN joinPipe(lines)
                  ELSE IF Len(lines) = 1 THEN lines[1] ELSE <<>>
    IN  trim(collapseSpaces(joined))

\* pieces of HUD output: text, separators, progress-bar blocks, and escape
\* sequences, complete and cut short
SanPieces ==
    {<<"O">>, <<" ">>, <<"\n">>, <<"|">>, <<"4", "0", "%">>,
     <<FullBlock>>, <<LightShade>>, <<MediumShade>>, <<DarkShade>>,
     <<ESC, "[", "3", "2", "m">>, <<ESC, "[", "0", "m">>,
     <<ESC, "[", "?", "2", "5", "l">>,
     <<ESC, "]", "0", ";", "t", BEL>>, <<ESC, "]", "0", ";", "t">>,
     <<ESC>>, <<"[">>, <<BEL>>}

SanInputs == {Concat(ps) : ps \in SeqsUpTo(SanPieces, MaxPieces)}

SanIdle ==
    /\ sanIn = <<>>
    /\ sanOp = "idle"
    /\ sanOut = <<>>

SanitizeOutput ==
    /\ sanOp = "idle"
    /\ sanOp' = "sanitizeOutput"
    /\ sanOut' = sanitizeOutput(sanIn)
    /\ UNCHANGED <<sanIn, urlVars, regVars, giteaVars, instVars>>

----------------------------------------------------------------------------
\* JavaScript values as the Gitea adapter sees them

undefined == [undefined |-> TRUE]
str(s) == [t |-> "string", v |-> s]
bool(b) == [t |-> "boolean", v |-> b]
obj(f) == [t |-> "object", f |-> f]
arr(v) == [t |-> "array", v |-> v]

IsNullish(x) == x = null \/ x = undefined

\* a test that takes the empty string for a value
Falsy_NullishOnly(x) == IsNullish(x)

\* !x for the optional strings the adapter tests
Falsy(x) == IsNullish(x) \/ x = str("")

\* the number argument: NaN, or a multiple of one half
NaN == [nan |-> TRUE]
Half(k) == [twice |-> k]
Numbers == {NaN} \cup {Half(k) : k \in -2 .. 2 * MaxNumber}

isInteger(n) == n # NaN /\ n.twice % 2 = 0
lessThanOne(n) == n # NaN /\ n.twice < 2

\* the guard of viewPR / viewIssue with the range test left out
validNumber_IntegerOnly(n) == isInteger(n)

\* the negation of the guard  !Number.isInteger(number) || number < 1
validNumber(n) == ~(~isInteger(n) \/ lessThanOne(n))

\* data.key: a TypeError on null and undefined, undefined for a missing key
get(x, key) ==
    IF x = raised \/ IsNullish(x) THEN raised
    ELSE IF x.t = "object" /\ key \in DOMAIN x.f THEN x.f[key]
    ELSE undefined

\* x?.key
optGet(x, key) ==
    IF x = raised THEN raised
    ELSE IF IsNullish(x) THEN undefined
    ELSE get(x, key)

\* a ?? b
coalesce(a, b) == IF a = raised THEN raised ELSE IF IsNullish(a) THEN b ELSE a

\* labels?.map(l => l.name)
labelNames(labels) ==
    IF labels = raised THEN raised
    ELSE IF IsNullish(labels) THEN undefined
    ELSE IF labels.t # "array" THEN raised
    ELSE IF \E i \in DOMAIN labels.v : IsNullish(labels.v[i]) THEN raised
    ELSE arr([i \in DOMAIN labels.v |-> get(labels.v[i], "name")])

\* an object literal: evaluating any property may throw
ObjectLiteral(r) == IF \E k \in DOMAIN r : r[k] = raised THEN raised ELSE r

\* documents a tool may print
DataPRTea ==
    obj([title |-> str("T"), head_branch |-> str("feat"), base_branch |-> str("main"),
         html_url |-> str("U"), body |-> str("B"), user |-> obj([login |-> str("u")])])
DataPRRest ==
    obj([title |-> str("T"), head |-> obj([ref |-> str("feat")]),
         base |-> obj([ref |-> str("main")]),
         html_url |-> str("U"), body |-> str("B"), user |-> obj([login |-> str("u")])])
DataIssue ==
    obj([title |-> str("T"), body |-> str("B"), html_url |-> str("U"),
         labels |-> arr(<<obj([name |-> str("bug")])>>)])
DataError == obj([message |-> str("Not Found")])
DataUserNull == obj([title |-> str("T"), user |-> null])
DataLabelsString == obj([title |-> str("T"), labels |-> str("bug")])
DataLabelsNullItem == obj([title |-> str("T"), labels |-> arr(<<null>>)])
DataNumber == [t |-> "number", v |-> 42]
Datas ==
    {null, DataNumber, DataPRTea, DataPRRest, DataIssue, DataError,
     DataUserNull, DataLabelsString, DataLabelsNullItem}

\* standard output: text that is not JSON, or the text of a document
Stdouts == {[json |-> FALSE]} \cup {[json |-> TRUE, data |-> d] : d \in Datas}

\* how a subprocess ends
ProcessOutcomes ==
    {[exit |-> "enoent"], [exit |-> "nonzero"], [exit |-> "timeout"]}
    \cup {[exit |-> "zero", stdout |-> o] : o \in Stdouts}

\* execFileSync: the standard output, or an exception unless the exit is clean
execFileSync(outcome) == IF outcome.exit = "zero" THEN outcome.stdout ELSE raised

\* JSON.parse
JSONparse(raw) ==
    IF raw = raised THEN raised ELSE IF raw.json THEN raw.data ELSE raised

----------------------------------------------------------------------------
\* GiteaProvider

\* the try block of viewPR: run tea, parse, build the PRInfo
teaPR(outcome) ==
    LET data == JSONparse(execFileSync(outcome))
    IN  IF data = raised THEN raised
        ELSE ObjectLiteral(
               [title |-> get(data, "title"),
                headBranch |-> get(data, "head_branch"),
                baseBranch |-> get(data, "base_branch"),
                url |-> get(data, "html_url"),
                body |-> get(data, "body"),
                author |-> optGet(get(data, "user"), "login")])

\* the try block of viewPRviaRest reading only the field names tea prints
curlPR_TeaFields(outcome) == teaPR(outcome)

\* the try block of viewPRviaRest: run curl, parse, build the PRInfo
curlPR(outcome) ==
    LET data == JSONparse(execFileSync(outcome))
    IN  IF data = raised THEN raised
        ELSE ObjectLiteral(
               [title |-> get(data, "title"),
                headBranch |-> coalesce(optGet(get(data, "head"), "ref"),
                                        get(data, "head_branch")),
                baseBranch |-> coalesce(optGet(get(data, "base"), "ref"),
                                        get(data, "base_branch")),
                url |-> get(data, "html_url"),
                body |-> get(data, "body"),
                author |-> optGet(get(data, "user"), "login")])

\* the try block of viewIssue: run tea, parse, build the IssueInfo
teaIssue(outcome) ==
    LET data == JSONparse(execFileSync(outcome))
    IN  IF data = raised THEN raised
        ELSE ObjectLiteral(
               [title |-> get(data, "title"),
                body |-> get(data, "body"),
                url |-> get(data, "html_url"),
                labels |-> labelNames(get(data, "labels"))])

\* the try block of viewIssueviaRest: run curl, parse, build the IssueInfo
curlIssue(outcome) ==
    LET data == JSONparse(execFileSync(outcome))
    IN  IF data = raised THEN raised
        ELSE ObjectLiteral(
               [title |-> get(data, "title"),
                body |-> get(data, "body"),
                url |-> get(data, "html_url"),
                labels |-> labelNames(get(data, "labels"))])

\* what the try block of the CLI tier evaluates to: a value, or raised
cliTier(method, outcome) ==
    IF method = "viewPR" THEN teaPR(outcome) ELSE teaIssue(outcome)

\* a CLI tier whose result is ignored: the REST tier always follows
fallsBack_Always(r) == TRUE

\* the empty catch of the CLI tier: control reaches the REST tier exactly when
\* the try block raised, otherwise the try block has already returned
fallsBack(r) == r = raised

\* the guard of the REST tier without its test of owner
restSkipped_NoOwnerCheck(env, owner, repo) == Falsy(env.GITEA_URL) \/ Falsy(repo)

\* the guard of the REST tier without its test of repo
restSkipped_NoRepoCheck(env, owner, repo) == Falsy(env.GITEA_URL) \/ Falsy(owner)

\* the guard of viewPRviaRest / viewIssueviaRest: !baseUrl || !owner || !repo
restSkipped(env, owner, repo) ==
    Falsy(env.GITEA_URL) \/ Falsy(owner) \/ Falsy(repo)

\* what the try block of the REST tier evaluates to: a value, or raised
restTry(method, outcome) ==
    IF method = "viewPR" THEN curlPR(outcome) ELSE curlIssue(outcome)

\* a REST tier without its catch block
restTier_NoCatch(method, outcome) == restTry(method, outcome)

\* the try / catch of the REST tier: a value, or null when the block raised
restTier(method, outcome) ==
    LET r == restTry(method, outcome)
    IN  IF r = raised THEN null ELSE r

\* the tea invocation of the CLI tier
teaRequest(method, number) ==
    [tool |-> "tea",
     args |-> IF method = "viewPR" THEN <<"pr", "view">> ELSE <<"issues", "view">>,
     number |-> number]

\* the curl invocation of the REST tier; only viewPRviaRest adds the header
curlRequest(method, env, call) ==
    [tool |-> "curl",
     auth |-> IF method = "viewPR" /\ ~Falsy(env.GITEA_TOKEN)
              THEN env.GITEA_TOKEN ELSE undefined,
     base |-> env.GITEA_URL,
     owner |-> call.owner,
     repo |-> call.repo,
     path |-> IF method = "viewPR" THEN "pulls" ELSE "issues",
     number |-> call.number]

Started(req) == [ev |-> "start", req |-> req]
Ended(tool, outcome, threw) ==
    [ev |-> "end", tool |-> tool, outcome |-> outcome, threw |-> threw]

EnvValues(set) == {undefined, str("")} \cup {str(v) : v \in set}
Envs == [GITEA_URL : EnvValues({"https://g.io"}), GITEA_TOKEN : EnvValues({"tok"})]
Owners == EnvValues({"o"})
Repos == {undefined, str("r")}
BaseUrls == {str("https://g.io")}

\* how a fetch ends: a 2xx response, another response, or a rejection
FetchOutcomes == {[res |-> "ok"], [res |-> "status"], [res |-> "error"]}

\* no adapter call has been made
GiteaStart ==
    /\ gCall = [method |-> "none"]
    /\ gPc = "idle"
    /\ gLog = <<>>
    /\ gRet = undefined

GiteaIdle ==
    /\ gEnv = [GITEA_URL |-> undefined, GITEA_TOKEN |-> undefined]
    /\ GiteaStart

\* entry of viewPR / viewIssue: the number guard, then the start of tea
View(method, number, owner, repo) ==
    /\ gPc = "idle"
    /\ gCall' = [method |-> method, number |-> number, owner |-> owner, repo |-> repo]
    /\ IF validNumber(number)
       THEN /\ gPc' = "cli"
            /\ gLog' = Append(gLog, Started(teaRequest(method, number)))
            /\ gRet' = gRet
       ELSE /\ gPc' = "done"
            /\ gLog' = gLog
            /\ gRet' = null
    /\ UNCHANGED <<gEnv, urlVars, regVars, sanVars, instVars>>

ViewPR(number, owner, repo) == View("viewPR", number, owner, repo)

ViewIssue(number, owner, repo) == View("viewIssue", number, owner, repo)

\* tea has ended: the rest of the CLI try block, and on failure the entry of
\* the REST tier up to the start of curl
CliEnds(outcome) ==
    /\ gPc = "cli"
    /\ LET r == cliTier(gCall.method, outcome)
           log == Append(gLog, Ended("tea", outcome, r = raised))
       IN  IF ~fallsBack(r)
           THEN /\ gPc' = "done"
                /\ gLog' = log
                /\ gRet' = r
           ELSE IF restSkipped(gEnv, gCall.owner, gCall.repo)
           THEN /\ gPc' = "done"
                /\ gLog' = log
                /\ gRet' = null
           ELSE /\ gPc' = "rest"
                /\ gLog' = Append(log, Started(curlRequest(gCall.method, gEnv, gCall)))
                /\ gRet' = gRet
    /\ UNCHANGED <<gEnv, gCall, urlVars, regVars, sanVars, instVars>>

\* curl has ended: the rest of the REST try block and its catch
RestEnds(outcome) ==
    /\ gPc = "rest"
    /\ gPc' = "done"
    /\ gLog' = Append(gLog, Ended("curl", outcome, restTry(gCall.method, outcome) = raised))
    /\ gRet' = restTier(gCall.method, outcome)
    /\ UNCHANGED <<gEnv, gCall, urlVars, regVars, sanVars, instVars>>

\* entry of checkAuth: the token test, then the start of tea login list
CheckAuth ==
    /\ gPc = "idle"
    /\ gCall' = [method |-> "checkAuth"]
    /\ IF ~Falsy(gEnv.GITEA_TOKEN)
       THEN /\ gPc' = "done"
            /\ gLog' = gLog
            /\ gRet' = bool(TRUE)
       ELSE /\ gPc' = "login"
            /\ gLog' = Append(gLog, Started([tool |-> "tea", args |-> <<"login", "list">>]))
            /\ gRet' = gRet
    /\ UNCHANGED <<gEnv, urlVars, regVars, sanVars, instVars>>

\* tea login list has ended
LoginEnds(outcome) ==
    /\ gPc = "login"
    /\ gPc' = "done"
    /\ gLog' = Append(gLog, Ended("tea", outcome, execFileSync(outcome) = raised))
    /\ gRet' = bool(execFileSync(outcome) # raised)
    /\ UNCHANGED <<gEnv, gCall, urlVars, regVars, sanVars, instVars>>

\* entry of detectFromApi: the fetch of the Forgejo version endpoint
DetectFromApi(baseUrl) ==
    /\ gPc = "idle"
    /\ gCall' = [method |-> "detectFromApi", baseUrl |-> baseUrl]
    /\ gPc' = "forgejoProbe"
    /\ gLog' = Append(gLog, Started([tool |-> "fetch", base |-> baseUrl,
                                     path |-> "/api/forgejo/v1/version"]))
    /\ UNCHANGED <<gRet, gEnv, urlVars, regVars, sanVars, instVars>>

\* one try / catch around both probes: a rejected Forgejo fetch ends the call
ForgejoProbeEnds_ErrorIsFinal(outcome) ==
    /\ gPc = "forgejoProbe"
    /\ LET log == Append(gLog, Ended("fetch", outcome, outcome.res = "error"))
       IN  IF outcome.res # "status"
           THEN /\ gPc' = "done"
                /\ gLog' = log
                /\ gRet' = bool(outcome.res = "ok")
           ELSE /\ gPc' = "giteaProbe"
                /\ gLog' = Append(log, Started([tool |-> "fetch", base |-> gCall.baseUrl,
                                                path |-> "/api/v1/version"]))
                /\ gRet' = gRet
    /\ UNCHANGED <<gEnv, gCall, urlVars, regVars, sanVars, instVars>>

\* the Forgejo fetch has settled
ForgejoProbeEnds(outcome) ==
    /\ gPc = "forgejoProbe"
    /\ LET log == Append(gLog, Ended("fetch", outcome, outcome.res = "error"))
       IN  IF outcome.res = "ok"
           THEN /\ gPc' = "done"
                /\ gLog' = log
                /\ gRet' = bool(TRUE)
           ELSE /\ gPc' = "giteaProbe"
                /\ gLog' = Append(log, Started([tool |-> "fetch", base |-> gCall.baseUrl,
                                                path |-> "/api/v1/version"]))
                /\ gRet' = gRet
    /\ UNCHANGED <<gEnv, gCall, urlVars, regVars, sanVars, instVars>>

\* the Gitea fetch has settled
GiteaProbeEnds(outcome) ==
    /\ gPc = "giteaProbe"
    /\ gPc' = "done"
    /\ gLog' = Append(gLog, Ended("fetch", outcome, outcome.res = "error"))
    /\ gRet' = bool(outcome.res = "ok")
    /\ UNCHANGED <<gEnv, gCall, urlVars, regVars, sanVars, instVars>>

InitGitea ==
    /\ UrlIdle
    /\ RegistryInit
    /\ SanIdle
    /\ InstIdle
    /\ gEnv \in Envs
    /\ GiteaStart

NextGitea ==
    \/ \E n \in Numbers, o \in Owners, r \in Repos : ViewPR(n, o, r)
    \/ \E n \in Numbers, o \in Owners, r \in Repos : ViewIssue(n, o, r)
    \/ \E outcome \in ProcessOutcomes : CliEnds(outcome)
    \/ \E outcome \in ProcessOutcomes : RestEnds(outcome)
    \/ CheckAuth
    \/ \E outcome \in ProcessOutcomes : LoginEnds(outcome)
    \/ \E baseUrl \in BaseUrls : DetectFromApi(baseUrl)
    \/ \E outcome \in FetchOutcomes : ForgejoProbeEnds(outcome)
    \/ \E outcome \in FetchOutcomes : GiteaProbeEnds(outcome)

SpecGitea == InitGitea /\ [][NextGitea]_vars

\* execFileSync's timeout option ends a subprocess that does not exit
TimedOut == [exit |-> "timeout"]

\* the timeouts, were curl started without one
Timeouts_CurlUnbounded ==
    /\ WF_vars(CliEnds(TimedOut))
    /\ WF_vars(LoginEnds(TimedOut))

\* every execFileSync of the adapter carries timeout: 10000, so a running tea
\* or curl is ended at the latest by its timeout; fetch carries none
Timeouts ==
    /\ WF_vars(CliEnds(TimedOut))
    /\ WF_vars(RestEnds(TimedOut))
    /\ WF_vars(LoginEnds(TimedOut))

SpecGiteaFair == InitGitea /\ [][NextGitea]_vars /\ Timeouts

\* install calls on a home directory
InitInstall ==
    /\ UrlIdle
    /\ RegistryInit
    /\ GiteaIdle
    /\ SanIdle
    /\ fs \in StartFiles
    /\ instLast = [called |-> FALSE]
    /\ instPrevOk = FALSE
    /\ instCalls = 0

NextInstall == \E force \in BOOLEAN, faults \in FaultSets : Install(force, faults)

SpecInstall == InitInstall /\ [][NextInstall]_vars

\* the sanitizer on one HUD output
InitSanitize ==
    /\ UrlIdle
    /\ RegistryInit
    /\ GiteaIdle
    /\ InstIdle
    /\ sanIn \in SanInputs
    /\ sanOp = "idle"
    /\ sanOut = <<>>

SpecSanitize == InitSanitize /\ [][SanitizeOutput]_vars

\* the registry functions, called in any order
InitRegistry == UrlIdle /\ RegistryInit /\ GiteaIdle /\ SanIdle /\ InstIdle

NextRegistry ==
    \/ \E name \in LookupNames : GetProvider(name)
    \/ \E git \in GitOutcomes : GetProviderFromCwd(git)

SpecRegistry == InitRegistry /\ [][NextRegistry]_vars

----------------------------------------------------------------------------
\* The state machine: one call of an exported function on one input

Init ==
    /\ gen \in Gens
    /\ url = Render(gen)
    /\ op = "idle"
    /\ provider = "none"
    /\ info = null
    /\ RegistryInit
    /\ GiteaIdle
    /\ SanIdle
    /\ InstIdle

DetectProvider ==
    /\ op = "idle"
    /\ op' = "detectProvider"
    /\ provider' = detectProvider(url)
    /\ UNCHANGED <<url, gen, info, regVars, giteaVars, sanVars, instVars>>

ParseRemoteUrl ==
    /\ op = "idle"
    /\ op' = "parseRemoteUrl"
    /\ info' = parseRemoteUrl(url)
    /\ UNCHANGED <<url, gen, provider, regVars, giteaVars, sanVars, instVars>>

Next == DetectProvider \/ ParseRemoteUrl

Spec == Init /\ [][Next]_vars

\* the calls of one function alone
SpecDetect == Init /\ [][DetectProvider]_vars
SpecParse == Init /\ [][ParseRemoteUrl]_vars

----------------------------------------------------------------------------
\* Properties of detectProvider

\* C1: detectProvider returns a member of the provider enumeration for every
\* input string, and returns unknown for the empty string.
C1_DetectProviderTotal ==
    op = "detectProvider" =>
        /\ provider \in ProviderName
        /\ (url = <<>> => provider = "unknown")

C1_Witness == op = "detectProvider" /\ url = <<>> /\ provider = "unknown"

\* the name lit occurs in u, whatever the case of the letters of u
Mentions(u, lit) == includes(toLowerCase(u), lit)

\* the rules of the cascade in their documented order, and what each answers
RuleProvider ==
    <<"azure-devops", "github", "gitlab", "bitbucket", "gitlab", "gitea", "forgejo">>

RuleFires(u, r) ==
    CASE r = 1 -> \/ Mentions(u, LitDevAzure)
                  \/ Mentions(u, LitSshDevAzure)
                  \/ Mentions(u, LitVisualStudio)
      [] r = 2 -> Mentions(u, LitGithub)
      [] r = 3 -> Mentions(u, LitGitlabCom)
      [] r = 4 -> Mentions(u, LitBitbucket)
      [] r = 5 -> Mentions(u, LitGitlab)
      [] r = 6 -> Mentions(u, LitGitea)
      [] r = 7 -> Mentions(u, LitForgejo)

FiredRules(u) == {r \in DOMAIN RuleProvider : RuleFires(u, r)}

\* C2: the result of detectProvider is the provider of the earliest rule the
\* input triggers, in the order Azure DevOps, github.com, gitlab.com,
\* bitbucket.org, gitlab, gitea, forgejo, and unknown if it triggers none.
C2_FirstMatchWins ==
    op = "detectProvider" =>
        LET fired == FiredRules(url)
        IN  provider = IF fired = {} THEN "unknown" ELSE RuleProvider[Min(fired)]

C2_Witness ==
    /\ op = "detectProvider"
    /\ Mentions(url, LitDevAzure)
    /\ Mentions(url, LitGithub)
    /\ provider = "azure-devops"

\* the names detectProvider looks for
KnownNames ==
    {LitDevAzure, LitVisualStudio, LitGithub, LitGitlabCom, LitBitbucket,
     LitGitlab, LitGitea, LitForgejo}

\* C3: the result of detectProvider depends only on the hostname: the same
\* host with another path gets the same provider, and a host containing none
\* of the known names is unknown whatever the path contains.
C3_HostnameOnly ==
    (op = "detectProvider" /\ gen.form \in Forms /\ gen.host # <<>>) =>
        /\ \A p \in SeqsUpTo(Segments, 1) :
               detectProvider(Render([gen EXCEPT !.segs = p])) = provider
        /\ (\A name \in KnownNames : ~Mentions(gen.host, name)) =>
               provider = "unknown"

----------------------------------------------------------------------------
\* Properties of parseRemoteUrl

EndsWith(s, lit) == Len(s) >= Len(lit) /\ hasAt(s, Len(s) - Len(lit) + 1, lit)

\* C4: whatever the input, the repo of a parse result never ends in .git.
C4_RepoNeverEndsInDotGit ==
    (op = "parseRemoteUrl" /\ info # null) => ~EndsWith(info.repo, LitDotGit)

\* C5: parseRemoteUrl returns either null or a value with all four fields, whose
\* host, owner and repo are non-empty strings.
C5_NonEmptyOrNull ==
    op = "parseRemoteUrl" =>
        \/ info = null
        \/ /\ DOMAIN info = {"provider", "host", "owner", "repo"}
           /\ info.provider \in ProviderName
           /\ info.host # <<>>
           /\ info.owner # <<>>
           /\ info.repo # <<>>

\* an input with an empty path segment that nevertheless parses
C5_Witness ==
    /\ op = "parseRemoteUrl"
    /\ info # null
    /\ \E i \in DOMAIN gen.segs : gen.segs[i] = <<>>

\* a generated URL of one of the generic forms: a host that is not an Azure
\* DevOps host (and, in the SCP form, has no colon of its own) and a path of
\* non-empty segments
GenericShape(g) ==
    /\ g.form \in Forms
    /\ g.host \notin {<<>>, LitDevAzure, LitSshDevAzure}
    /\ (g.form = "scp" => \A i \in DOMAIN g.host : g.host[i] # ":")
    /\ g.segs # <<>>
    /\ \A i \in DOMAIN g.segs : g.segs[i] # <<>>

\* the last path segment as written in the URL, with its suffix
LastSegment(g) == g.segs[Len(g.segs)] \o g.suffix

\* C6: in the generic HTTPS, SCP and ssh:// forms a path of n+1 segments,
\* n >= 1, parses with repo the last segment (minus an optional .git) and owner
\* the first n segments joined by /; a path of one segment does not parse.
C6_NestedOwnerPath ==
    (op = "parseRemoteUrl" /\ GenericShape(gen)) =>
        IF Len(gen.segs) = 1 THEN info = null
        ELSE /\ info # null
             /\ info.owner = Join(SubSeq(gen.segs, 1, Len(gen.segs) - 1))
             /\ \/ info.repo = LastSegment(gen)
                \/ info.repo \o LitDotGit = LastSegment(gen)

\* C7: a URL that parses gives the same result with a slash appended (stated
\* for the well-formed URLs of the generic forms).
C7_TrailingSlashIgnored ==
    (op = "parseRemoteUrl" /\ info # null /\ GenericShape(gen) /\ ~gen.padded) =>
        parseRemoteUrl(url \o <<"/">>) = info

\* leading and trailing whitespace put around an input: <<lead, trail>>
Paddings ==
    {<<<<" ">>, <<>>>>,
     <<<<>>, <<"\n">>>>,
     <<<<>>, <<" ", " ">>>>,
     <<<<" ", " ">>, <<" ", "\n">>>>}

\* C8: leading and trailing spaces and a trailing newline around an input do
\* not change what parseRemoteUrl returns for it, a value or null.
C8_WhitespaceTolerance ==
    op = "parseRemoteUrl" =>
        \A pad \in Paddings : parseRemoteUrl(pad[1] \o url \o pad[2]) = info

C8_Witness == op = "parseRemoteUrl" /\ gen.padded /\ info # null

\* C9: the provider of every parse result is detectProvider of the input, and
\* of the trimmed input.
C9_ProviderIsDetected ==
    (op = "parseRemoteUrl" /\ info # null) =>
        /\ info.provider = detectProvider(trim(url))
        /\ info.provider = detectProvider(url)

\* a padded URL of a generic form whose provider comes from its path
C9_Witness ==
    /\ op = "parseRemoteUrl"
    /\ info # null
    /\ gen.padded
    /\ gen.host = InHostPlain
    /\ info.host = InHostPlain
    /\ info.provider = "gitea"

\* a generated Azure DevOps HTTPS URL .../{org}/{project}/_git/{repo}[.git]
AzureHttpsShape(g) ==
    /\ g.form \in {"https", "http"}
    /\ g.host = LitDevAzure
    /\ Len(g.segs) = 4
    /\ \A i \in DOMAIN g.segs : g.segs[i] # <<>>
    /\ g.segs[3] = InSegGit
    /\ g.suffix \in {<<>>, LitDotGit}

\* a generated Azure DevOps SSH URL git@ssh.dev.azure.com:v3/{org}/{project}/{repo}[.git]
AzureSshShape(g) ==
    /\ g.form = "scp"
    /\ g.host = LitSshDevAzure
    /\ Len(g.segs) = 4
    /\ \A i \in DOMAIN g.segs : g.segs[i] # <<>>
    /\ g.segs[1] = InSegV3
    /\ g.suffix \in {<<>>, LitDotGit}

\* C10: both Azure DevOps URL shapes parse to provider azure-devops, host
\* dev.azure.com, owner org/project and repo, the Azure patterns being tried
\* before the generic ones.
C10_AzureShapes ==
    op = "parseRemoteUrl" =>
        /\ AzureHttpsShape(gen) =>
               info = [provider |-> "azure-devops",
                       host |-> LitDevAzure,
                       owner |-> gen.segs[1] \o <<"/">> \o gen.segs[2],
                       repo |-> gen.segs[4]]
        /\ AzureSshShape(gen) =>
               info = [provider |-> "azure-devops",
                       host |-> LitDevAzure,
                       owner |-> gen.segs[2] \o <<"/">> \o gen.segs[3],
                       repo |-> gen.segs[4]]

\* an Azure DevOps SSH URL, which the generic SCP pattern matches as well
C10_Witness ==
    /\ op = "parseRemoteUrl"
    /\ AzureSshShape(gen)
    /\ match(trim(url), "sshMatch") # NoMatch
    /\ info.provider = "azure-devops"
    /\ info.host = LitDevAzure

\* the input contains neither git@ nor a http:// or https:// scheme, which
\* every one of the five shapes starts with
NoRecognisedShape(u) ==
    /\ ~includes(u, LitGitAt)
    /\ ~includes(u, InHttps)
    /\ ~includes(u, InHttpPlain)

\* C11: parseRemoteUrl returns null for the empty string and for every string
\* that has none of the five recognised shapes.
C11_NullWithoutShape ==
    (op = "parseRemoteUrl" /\ NoRecognisedShape(url)) => info = null

\* a string with a host-like word and a slash, and no recognised shape
C11_Witness ==
    /\ op = "parseRemoteUrl"
    /\ NoRecognisedShape(url)
    /\ includes(url, LitGithub)
    /\ includes(url, InSlash)
    /\ info = null

\* the upper-case form of each lower-case letter
UpperMap ==
    [a |-> "A", b |-> "B", c |-> "C", d |-> "D", e |-> "E", f |-> "F",
     g |-> "G", h |-> "H", i |-> "I", j |-> "J", k |-> "K", l |-> "L",
     m |-> "M", n |-> "N", o |-> "O", p |-> "P", q |-> "Q", r |-> "R",
     s |-> "S", t |-> "T", u |-> "U", v |-> "V", w |-> "W", x |-> "X",
     y |-> "Y", z |-> "Z"]

\* String.prototype.toUpperCase
toUpperCase(s) ==
    [i \in 1..Len(s) |-> IF s[i] \in DOMAIN UpperMap THEN UpperMap[s[i]] ELSE s[i]]

\* C12: detectProvider gives the same provider for an input, for its upper-cased
\* form and for its lower-cased form.
C12_CaseInsensitive ==
    op = "detectProvider" =>
        /\ detectProvider(toUpperCase(url)) = provider
        /\ detectProvider(toLowerCase(url)) = provider

\* an input in mixed case that is recognised
C12_Witness ==
    /\ op = "detectProvider"
    /\ url # toLowerCase(url)
    /\ url # toUpperCase(url)
    /\ provider = "github"

----------------------------------------------------------------------------
\* Properties of the provider registry

\* C13: the registry is built at most once: every call naming a registered
\* provider returns the adapter the first such call returned, which is the one
\* the registry holds; no more adapters exist than one build constructs; and
\* getProvider returns null for unknown and for an unregistered name.
C13_RegistryBuiltOnce ==
    /\ created \in {0, Len(RegistryEntries)}
    /\ regLast.fn # "none" =>
          IF regLast.name \in RegisteredNames
          THEN /\ regLast.ret = regFirst[regLast.name]
               /\ regLast.ret = providerRegistry[regLast.name]
          ELSE regLast.ret = null

\* a third call that returns the adapter of the first
C13_Witness ==
    /\ regCalls = MaxCalls
    /\ regLast.fn = "getProvider"
    /\ regLast.name = "forgejo"
    /\ regLast.ret = [class |-> "GiteaProvider", instance |-> 6]
    /\ regFirst["forgejo"] = regLast.ret
    /\ regFirst["github"] # null

\* the provider name of the remote URL that git printed
CwdName(git) == detectProvider(trim(git.stdout))

\* C14: getProviderFromCwd never raises; it returns null if git fails or times
\* out, if the remote URL is empty or if the provider is unknown, and otherwise
\* the adapter getProvider gives for the provider detected from the trimmed URL.
C14_FromCwdNeverRaises ==
    regLast.fn = "getProviderFromCwd" =>
        /\ regLast.ret # raised
        /\ IF \/ regLast.git.thrown
              \/ trim(regLast.git.stdout) = <<>>
              \/ CwdName(regLast.git) = "unknown"
           THEN regLast.ret = null
           ELSE /\ regLast.ret # null
                /\ regLast.ret = providerRegistry[CwdName(regLast.git)]
                /\ regLast.ret = getProvider(providerRegistry, created,
                                             CwdName(regLast.git)).ret

\* a git invocation that timed out, after the registry was built
C14_Witness ==
    /\ regLast.fn = "getProviderFromCwd"
    /\ regLast.git.thrown
    /\ regLast.git.why = "timeout"
    /\ providerRegistry # null
    /\ regLast.ret = null

----------------------------------------------------------------------------
\* Properties of the Gitea adapter

IsView == gCall.method \in {"viewPR", "viewIssue"}

\* positions in the log at which a tool was started / has ended
StartsOf(tool) ==
    {i \in DOMAIN gLog : gLog[i].ev = "start" /\ gLog[i].req.tool = tool}
EndsOf(tool) ==
    {i \in DOMAIN gLog : gLog[i].ev = "end" /\ gLog[i].tool = tool}

PositiveIntegers == {Half(2 * k) : k \in 1 .. MaxNumber}

\* C15: viewPR and viewIssue answer a number that is not a positive integer
\* (zero, negative, fractional, NaN) with null at once: the call is over and
\* neither tea nor curl has been started.
C15_InvalidNumberRejected ==
    (IsView /\ gCall.number \notin PositiveIntegers) =>
        /\ gPc = "done"
        /\ gRet = null
        /\ gLog = <<>>

C15_Witness ==
    /\ gCall.method = "viewIssue"
    /\ gCall.number = Half(0)
    /\ gPc = "done"
    /\ gRet = null
    /\ gLog = <<>>

\* the CLI failures the fallback is promised for
CliFailure(o) == o.exit \in {"nonzero", "enoent", "timeout"} \/ ~o.stdout.json

\* a clean curl exit with the document of the resource asked for
RestSuccess(method, o) ==
    /\ o.exit = "zero"
    /\ o.stdout.json
    /\ o.stdout.data \in (IF method = "viewPR" THEN {DataPRRest, DataPRTea}
                          ELSE {DataIssue})

ExpectedPR ==
    [title |-> str("T"), headBranch |-> str("feat"), baseBranch |-> str("main"),
     url |-> str("U"), body |-> str("B"), author |-> str("u")]
ExpectedIssue ==
    [title |-> str("T"), body |-> str("B"), url |-> str("U"),
     labels |-> arr(<<str("bug")>>)]

\* C16: when the CLI tier fails (non-zero exit, missing binary, timeout or
\* unparsable output) and the REST tier succeeds, viewPR and viewIssue return
\* the value derived from the REST response, not null.
C16_FallbackContainment ==
    (IsView /\ gPc = "done") =>
        \A i \in EndsOf("tea"), j \in EndsOf("curl") :
            (CliFailure(gLog[i].outcome) /\ RestSuccess(gCall.method, gLog[j].outcome))
            => gRet = (IF gCall.method = "viewPR" THEN ExpectedPR ELSE ExpectedIssue)

C16_Witness ==
    /\ gCall.method = "viewPR"
    /\ gPc = "done"
    /\ \E i \in EndsOf("tea") : gLog[i].outcome = [exit |-> "timeout"]
    /\ \E j \in EndsOf("curl") :
           gLog[j].outcome = [exit |-> "zero", stdout |-> [json |-> TRUE, data |-> DataPRRest]]
    /\ gRet = ExpectedPR

\* C17: within one viewPR / viewIssue call each tier is started at most once,
\* curl is started only after tea has ended in failure, and after tea has
\* ended in success curl is never started.
C17_TiersSequential ==
    IsView =>
        /\ Cardinality(StartsOf("tea")) <= 1
        /\ Cardinality(StartsOf("curl")) <= 1
        /\ \A i \in StartsOf("curl") :
               \E j \in EndsOf("tea") : j < i /\ gLog[j].threw
        /\ (\E j \in EndsOf("tea") : ~gLog[j].threw) => StartsOf("curl") = {}
        /\ \A j \in EndsOf("tea") : \E i \in StartsOf("tea") : i < j

\* tea succeeded while the REST tier had all its inputs
C17_Witness ==
    /\ gCall.method = "viewPR"
    /\ gPc = "done"
    /\ ~Falsy(gEnv.GITEA_URL) /\ ~Falsy(gCall.owner) /\ ~Falsy(gCall.repo)
    /\ \E j \in EndsOf("tea") : ~gLog[j].threw
    /\ StartsOf("curl") = {}
    /\ gRet = ExpectedPR

MissingInput == Falsy(gEnv.GITEA_URL) \/ Falsy(gCall.owner) \/ Falsy(gCall.repo)

\* C18 as stated: if owner, repo or the base URL is missing, viewPR and
\* viewIssue return null whatever the CLI tier did.
C18_AbsentWhenInputMissing ==
    (IsView /\ gPc = "done" /\ MissingInput) => gRet = null

\* C18: if owner, repo or the base URL is missing, viewPR and viewIssue return
\* null unless the CLI tier succeeded, and then they return its value.
C18_AbsentUnlessCliSucceeds ==
    (IsView /\ gPc = "done" /\ MissingInput) =>
        /\ \A j \in EndsOf("tea") :
               ~gLog[j].threw => gRet = cliTier(gCall.method, gLog[j].outcome)
        /\ (\A j \in EndsOf("tea") : gLog[j].threw) => gRet = null

\* tea failed and owner is missing while base URL and repo are there
C18_Witness ==
    /\ gCall.method = "viewPR"
    /\ gPc = "done"
    /\ gCall.owner = undefined
    /\ ~Falsy(gEnv.GITEA_URL) /\ ~Falsy(gCall.repo)
    /\ \E j \in EndsOf("tea") : gLog[j].threw
    /\ gRet = null

\* C19: if GITEA_URL is unset or empty, or owner or repo is missing, curl is
\* never started, and a call that reached the REST tier returns null.
C19_RestSkipped ==
    (IsView /\ MissingInput) =>
        /\ StartsOf("curl") = {}
        /\ gPc # "rest"
        /\ (gPc = "done" /\ \E j \in EndsOf("tea") : gLog[j].threw) => gRet = null

\* the REST tier reached with an empty GITEA_URL
C19_Witness ==
    /\ gCall.method = "viewIssue"
    /\ gPc = "done"
    /\ gEnv.GITEA_URL = str("")
    /\ ~Falsy(gCall.owner) /\ ~Falsy(gCall.repo)
    /\ \E j \in EndsOf("tea") : gLog[j].threw
    /\ StartsOf("curl") = {}
    /\ gRet = null

PRInfoFields == {"title", "headBranch", "baseBranch", "url", "body", "author"}
IssueInfoFields == {"title", "body", "url", "labels"}

\* C20: no exception leaves the adapter: whatever the tools do, viewPR and
\* viewIssue return a PRInfo / IssueInfo or null, and checkAuth and
\* detectFromApi return a boolean.
C20_NoExceptionEscapes ==
    /\ gRet # raised
    /\ gPc = "done" =>
          CASE gCall.method = "viewPR" -> gRet = null \/ DOMAIN gRet = PRInfoFields
            [] gCall.method = "viewIssue" -> gRet = null \/ DOMAIN gRet = IssueInfoFields
            [] OTHER -> gRet \in {bool(TRUE), bool(FALSE)}

\* tea printed labels that are no array, curl printed JSON null
C20_Witness ==
    /\ gCall.method = "viewIssue"
    /\ gPc = "done"
    /\ \E i \in EndsOf("tea") :
           gLog[i].outcome = [exit |-> "zero", stdout |-> [json |-> TRUE, data |-> DataLabelsString]]
    /\ \E j \in EndsOf("curl") :
           gLog[j].outcome = [exit |-> "zero", stdout |-> [json |-> TRUE, data |-> null]]
    /\ gRet = null

\* C21: checkAuth returns true without starting a subprocess when GITEA_TOKEN
\* is set and not empty; otherwise it runs tea login list once and returns
\* true exactly when that run succeeds.
C21_CheckAuthCascade ==
    gCall.method = "checkAuth" =>
        IF gEnv.GITEA_TOKEN \notin {undefined, str("")}
        THEN gPc = "done" /\ gRet = bool(TRUE) /\ gLog = <<>>
        ELSE /\ Cardinality(StartsOf("tea")) = 1
             /\ gLog[1] = Started([tool |-> "tea", args |-> <<"login", "list">>])
             /\ StartsOf("curl") = {}
             /\ gPc = "done" =>
                   /\ Cardinality(EndsOf("tea")) = 1
                   /\ \A j \in EndsOf("tea") :
                          gRet = bool(gLog[j].outcome.exit = "zero")

\* an empty token, and a login check that failed
C21_Witness ==
    /\ gCall.method = "checkAuth"
    /\ gEnv.GITEA_TOKEN = str("")
    /\ gPc = "done"
    /\ \E j \in EndsOf("tea") : gLog[j].outcome = [exit |-> "nonzero"]
    /\ gRet = bool(FALSE)

ForgejoProbe(base) ==
    Started([tool |-> "fetch", base |-> base, path |-> "/api/forgejo/v1/version"])
GiteaProbe(base) ==
    Started([tool |-> "fetch", base |-> base, path |-> "/api/v1/version"])

\* C22: detectFromApi probes the Forgejo endpoint first; it probes the Gitea
\* endpoint second and only after the Forgejo probe was not ok or was
\* rejected; it returns true exactly when a probe it issued was ok, and a
\* rejected probe counts as not ok.
C22_ProbeOrder ==
    gCall.method = "detectFromApi" =>
        /\ gLog[1] = ForgejoProbe(gCall.baseUrl)
        /\ Cardinality(StartsOf("fetch")) <= 2
        /\ \A i \in StartsOf("fetch") :
               i > 1 => /\ gLog[i] = GiteaProbe(gCall.baseUrl)
                        /\ gLog[2].ev = "end"
                        /\ gLog[2].outcome.res \in {"status", "error"}
                        /\ i = 3
        /\ (Len(gLog) >= 2 /\ gLog[2].outcome.res # "ok") => 3 \in StartsOf("fetch")
        /\ gPc = "done" <=> Len(gLog) \in {2, 4} /\ gLog[Len(gLog)].ev = "end"
                             /\ (Len(gLog) = 2 => gLog[2].outcome.res = "ok")
        /\ gPc = "done" =>
               gRet = bool(\E j \in EndsOf("fetch") : gLog[j].outcome.res = "ok")

\* the Forgejo probe was rejected, the Gitea probe was ok
C22_Witness ==
    /\ gCall.method = "detectFromApi"
    /\ gPc = "done"
    /\ Len(gLog) = 4
    /\ gLog[2].outcome = [res |-> "error"]
    /\ gLog[4].outcome = [res |-> "ok"]
    /\ gRet = bool(TRUE)

AllStarts == {i \in DOMAIN gLog : gLog[i].ev = "start"}
AllEnds == {i \in DOMAIN gLog : gLog[i].ev = "end"}

\* C23: viewPR, viewIssue and checkAuth always terminate: a call waiting for
\* tea or curl eventually returns, it starts at most two subprocesses, and when
\* every subprocess it started timed out the result is null / false.
C23_BoundedByTimeouts ==
    /\ [](gCall.method \in {"viewPR", "viewIssue", "checkAuth"} =>
            /\ Cardinality(AllStarts) <= 2
            /\ (gPc = "done" /\ AllEnds # {}
                /\ \A j \in AllEnds : gLog[j].outcome = TimedOut)
               => gRet \in {null, bool(FALSE)})
    /\ (gPc \in {"cli", "rest", "login"}) ~> (gPc = "done")

\* tea and curl both timed out
C23_Witness ==
    /\ gCall.method = "viewPR"
    /\ gPc = "done"
    /\ Cardinality(AllEnds) = 2
    /\ \A j \in AllEnds : gLog[j].outcome = TimedOut
    /\ gRet = null

\* C24: detectFromApi is bounded by a timeout: a call waiting for a probe
\* eventually resolves.
C24_DetectFromApiResolves ==
    (gPc \in {"forgejoProbe", "giteaProbe"}) ~> (gPc = "done")

\* C25: every curl request of the REST tier carries GITEA_TOKEN as its
\* credential when the token is set, for viewIssue as for viewPR, and carries
\* no credential when it is not.
C25_TokenSentWhenSet ==
    IsView =>
        \A i \in StartsOf("curl") :
            gLog[i].req.auth = (IF gEnv.GITEA_TOKEN \in {undefined, str("")}
                                THEN undefined ELSE gEnv.GITEA_TOKEN)

\* a REST tier that failed: curl did not exit cleanly, printed no JSON, or
\* printed the error document of an HTTP error status
RestFailure(o) ==
    \/ o.exit \in {"nonzero", "enoent", "timeout"}
    \/ ~o.stdout.json
    \/ o.stdout.data = DataError

\* C27: when both tiers fail, an HTTP error status with a JSON error body
\* counting as a failure of the REST tier, viewPR and viewIssue return null.
C27_NullWhenBothTiersFail ==
    (IsView /\ gPc = "done") =>
        \A i \in EndsOf("tea"), j \in EndsOf("curl") :
            (gLog[i].threw /\ RestFailure(gLog[j].outcome)) => gRet = null

----------------------------------------------------------------------------
\* Properties of the HUD output sanitizer

Contains(s, chars) == \E i \in 1 .. Len(s) : s[i] \in chars

\* C26: the result of sanitizeOutput contains no ESC character, no newline
\* and none of the four block characters.
C26_SanitizedIsClean ==
    sanOp = "sanitizeOutput" =>
        /\ ~Contains(sanOut, {ESC})
        /\ ~Contains(sanOut, {"\n"})
        /\ ~Contains(sanOut, {FullBlock, LightShade, MediumShade, DarkShade})

----------------------------------------------------------------------------
\* Further properties of parseRemoteUrl

SlashCount(s) == Cardinality({i \in DOMAIN s : s[i] = "/"})

\* C28: a parse result with provider azure-devops has host dev.azure.com and
\* an owner of exactly two segments, none of them _git (stated for the clone
\* URLs https://{org}@dev.azure.com/{org}/{project}/_git/{repo} and
\* https://{org}.visualstudio.com/{project}/_git/{repo}).
C28_AzureResultShape ==
    (op = "parseRemoteUrl" /\ gen \in AzureCloneGens
     /\ info # null /\ info.provider = "azure-devops") =>
        /\ info.host = LitDevAzure
        /\ SlashCount(info.owner) = 1
        /\ ~includes(<<"/">> \o info.owner \o <<"/">>, <<"/">> \o InSegGit \o <<"/">>)

\* a well-formed ssh://git@{host}/{owner-path}/{repo} URL
SshUrlShape(g) ==
    /\ g.form = "sshurl"
    /\ g.host # <<>>
    /\ ~g.padded
    /\ Len(g.segs) >= 2
    /\ \A i \in DOMAIN g.segs : g.segs[i] # <<>>

\* C29: an ssh:// URL, with or without a port in its host, parses with host
\* the text between git@ and the next slash and owner the owner path.
C29_SshUrlHostAndOwner ==
    (op = "parseRemoteUrl" /\ SshUrlShape(gen)) =>
        /\ info # null
        /\ info.host = gen.host
        /\ info.owner = Join(SubSeq(gen.segs, 1, Len(gen.segs) - 1))

----------------------------------------------------------------------------
\* Properties of the installer

Range(seq) == {seq[i] : i \in DOMAIN seq}
NoDuplicates(seq) == Cardinality(Range(seq)) = Len(seq)

\* the listed names are exactly the files of dir that the call wrote
ListsWritten(list, dir, names) ==
    /\ NoDuplicates(list)
    /\ Range(list) = {n \in Range(names) : Append(dir, n) \in instLast.writes}
    /\ \A n \in Range(names) :
           IF n \in Range(list)
           THEN fs[Append(dir, n)] = "installed"
           ELSE fs[Append(dir, n)] = instLast.before[Append(dir, n)]

\* C30: install without force overwrites no existing agent or command file
\* and leaves an existing CLAUDE.md as it is; installedAgents and
\* installedCommands list exactly the files the call wrote; an install without
\* force right after a successful one writes no agent or command file and
\* reports both lists empty; and a filesystem error gives success = false with
\* errors not empty, never an exception.
C30_InstallFrame ==
    instLast.called =>
        /\ ~instLast.force =>
               \A q \in AgentPaths \cup CommandPaths \cup {claudeMdPath} :
                   instLast.before[q] # "absent" => fs[q] = instLast.before[q]
        /\ instLast.result # raised
        /\ ListsWritten(instLast.result.installedAgents, AGENTS_DIR, AgentFiles)
        /\ ListsWritten(instLast.result.installedCommands, COMMANDS_DIR, CommandFiles)
        /\ (instPrevOk /\ ~instLast.force) =>
               /\ instLast.result.installedAgents = <<>>
               /\ instLast.result.installedCommands = <<>>
               /\ instLast.writes \cap (AgentPaths \cup CommandPaths) = {}
        /\ IF instLast.thrown
           THEN ~instLast.result.success /\ instLast.result.errors # <<>>
           ELSE instLast.result.success /\ instLast.result.errors = <<>>

\* a second install without force after a successful one that kept a file of
\* the user and wrote the other agent
C30_Witness ==
    /\ instCalls = 2
    /\ instPrevOk
    /\ ~instLast.force
    /\ instLast.result.success
    /\ instLast.result.installedAgents = <<>>
    /\ fs[Append(AGENTS_DIR, "oracle.md")] = "user"
    /\ fs[Append(AGENTS_DIR, "librarian.md")] = "installed"
    /\ fs[claudeMdPath] = "user"

====
